---- MODULE Spec2Model ----
(***************************************************************************)
(* Model of typingtxt.py: the typing session loop (main_curses), the       *)
(* scoring helpers nested in it, smart delete, the snapshot save/load      *)
(* helpers and the outer practice-round loop of main().                    *)
(*                                                                         *)
(* Conventions.                                                            *)
(*  - Characters are one-character strings.  Key codes that are not text   *)
(*    are named: "ESC" (27), "^S" (19), "^W" (23), "^H" (8/127),           *)
(*    "KEY_BACKSPACE", "KEY_EXIT", "KEY_OTHER" (any other special key) and *)
(*    "None" (get_wch raised curses.error: no key pending).                *)
(*  - multiplier and score are floats in the source.  They are kept here   *)
(*    exactly, in tenths: multiplier 0.5 is 5, a score of 12.5 is 125.     *)
(*  - Files are records; kind says what a reader finds at the path.        *)
(***************************************************************************)
EXTENDS Integers, Sequences, FiniteSets, TLC

(* ---------------- bounds of the model ---------------- *)
\* key events delivered to the program in one process run
MaxKeys == 4
\* practice rounds started in one process run
MaxRounds == 2

(* ---------------- program constants (tenths for the floats) ------------ *)
BASE_POINT_FACTOR == 10
MULTIPLIER_START == 5
MULTIPLIER_STEP == 1
MULTIPLIER_MAX == 50

(* ---------------- characters ---------------- *)
\* str.isspace() on the characters of the model
SpaceChars == {" ", "\n", "\t"}
\* str.isalnum() on the characters of the model
AlnumChars == {"a", "b", "c", "d", "e", "g", "h", "l", "o", "r", "t", "w"}

isspace(c) == c \in SpaceChars

is_word_char(c) == c \in AlnumChars \/ c = "_"

(* ---------------- source texts ---------------- *)
\* The text files offered by the menu.  Every paragraph is shorter than the
\* wrap width, so each paragraph is one display line.
TextIds == {1, 2}

\* Texts 3, 4 and 5 are not on the menu; main_curses and its helpers are
\* applied to them directly: 3 is "cat dog", 4 a line with a leading and a
\* doubled blank, 5 the empty text, for which preprocess_text keeps one empty
\* display line (lines 169-170).
display_lines(t) ==
    IF t = 1 THEN << <<"a", " ", "a">> >>
    ELSE IF t = 3 THEN << <<"c", "a", "t", " ", "d", "o", "g">> >>
    ELSE IF t = 4 THEN << <<" ", "a", " ", " ", "a">> >>
    ELSE IF t = 5 THEN << << >> >>
    ELSE << <<"a", ",">>, <<"a">> >>

RECURSIVE FlattenLines(_, _)
\* the chars list: the display lines with one newline entry between lines
FlattenLines(lines, i) ==
    IF i > Len(lines) THEN << >>
    ELSE lines[i] \o (IF i # Len(lines) THEN <<"\n">> ELSE << >>)
                  \o FlattenLines(lines, i + 1)

Chars(t) == FlattenLines(display_lines(t), 1)

TotalChars(t) == Len(Chars(t))

(* ---------------- preprocess_text ---------------- *)
\* tabsize of textwrap.TextWrapper, used by its expand_tabs step
TabSize == 8

\* the width preprocess_text uses when it is given none: line 158
DefaultWidth == 80

Spaces(n) == [k \in 1 .. n |-> " "]

RECURSIVE ExpandTabs(_, _, _)
\* str.expandtabs on paragraph p from entry i on, col being the column
ExpandTabs(p, i, col) ==
    IF i > Len(p) THEN << >>
    ELSE IF p[i] = "\t"
    THEN LET n == TabSize - (col % TabSize)
         IN Spaces(n) \o ExpandTabs(p, i + 1, col + n)
    ELSE <<p[i]>> \o ExpandTabs(p, i + 1, col + 1)

RECURSIVE RunLen(_, _)
\* the length of the run of p that starts at entry 1 and is all whitespace
\* or all non-whitespace, counted from entry k on
RunLen(p, k) ==
    IF k > Len(p) \/ isspace(p[k]) # isspace(p[1]) THEN k - 1
    ELSE RunLen(p, k + 1)

RECURSIVE SplitChunks(_)
\* TextWrapper._split on a paragraph without hyphens: the runs of
\* whitespace and the words between them
SplitChunks(p) ==
    IF Len(p) = 0 THEN << >>
    ELSE LET k == RunLen(p, 1)
         IN <<SubSeq(p, 1, k)>> \o SplitChunks(SubSeq(p, k + 1, Len(p)))

RECURSIVE FillLine(_, _, _)
\* the inner loop of _wrap_chunks: chunks are moved to the current line
\* while they fit
FillLine(chunks, cur_line, w) ==
    IF Len(chunks) > 0 /\ Len(cur_line) + Len(Head(chunks)) <= w
    THEN FillLine(Tail(chunks), cur_line \o Head(chunks), w)
    ELSE [cur_line |-> cur_line, chunks |-> chunks]

\* _handle_long_word with break_long_words: the next chunk fits on no line,
\* so as much of it as the current line has room for is cut off
HandleLongWord(f, w) ==
    IF Len(f.chunks) > 0 /\ Len(Head(f.chunks)) > w
    THEN LET space_left == IF w < 1 THEN 1 ELSE w - Len(f.cur_line)
             chunk == Head(f.chunks)
         IN [cur_line |-> f.cur_line \o SubSeq(chunk, 1, space_left),
             chunks |-> <<SubSeq(chunk, space_left + 1, Len(chunk))>>
                          \o Tail(f.chunks)]
    ELSE f

RECURSIVE WrapChunks(_, _)
\* TextWrapper._wrap_chunks with drop_whitespace=False and no indent
WrapChunks(chunks, w) ==
    IF Len(chunks) = 0 THEN << >>
    ELSE LET g == HandleLongWord(FillLine(chunks, << >>, w), w)
         IN (IF Len(g.cur_line) > 0 THEN <<g.cur_line>> ELSE << >>)
              \o WrapChunks(g.chunks, w)

\* textwrap.wrap(p, width=w, replace_whitespace=False, drop_whitespace=False)
wrap(p, w) == WrapChunks(SplitChunks(ExpandTabs(p, 1, 0)), w)

RECURSIVE split(_)
\* text.split('\n')
split(t) ==
    IF \A k \in 1 .. Len(t) : t[k] # "\n" THEN <<t>>
    ELSE LET k == CHOOSE j \in 1 .. Len(t) :
                     t[j] = "\n" /\ \A i \in 1 .. j - 1 : t[i] # "\n"
         IN <<SubSeq(t, 1, k - 1)>> \o split(SubSeq(t, k + 1, Len(t)))

RECURSIVE WrapParagraphs(_, _, _)
\* the first loop of preprocess_text, lines 168-176
WrapParagraphs(paragraphs, p_i, w) ==
    IF p_i > Len(paragraphs) THEN << >>
    ELSE LET p == paragraphs[p_i]
             wrapped == wrap(p, w)
         IN (IF Len(p) = 0 \/ Len(wrapped) = 0 THEN << << >> >> ELSE wrapped)
              \o WrapParagraphs(paragraphs, p_i + 1, w)

\* col_idx advancing past an entry, without the reset at a newline
NextColNoReset(c, col_idx) == col_idx + 1

\* col_idx after entry c: lines 199-205
NextCol(c, col_idx) == IF c = "\n" THEN 0 ELSE col_idx + 1

RECURSIVE IdxToPosFrom(_, _, _, _)
\* the loop of lines 197-205 (and of lines 422-431) from entry i on
IdxToPosFrom(cs, i, line_idx, col_idx) ==
    IF i > Len(cs) THEN << >>
    ELSE <<[line |-> line_idx, column |-> col_idx]>>
           \o IdxToPosFrom(cs, i + 1,
                           IF cs[i] = "\n" THEN line_idx + 1 ELSE line_idx,
                           NextCol(cs[i], col_idx))

idx_to_pos(cs) == IdxToPosFrom(cs, 1, 0, 0)

\* the dict preprocess_text returns
preprocess_text(t, w) ==
    LET wd == IF w <= 0 THEN DefaultWidth ELSE w
        lines == WrapParagraphs(split(t), 1, wd)
        cs == FlattenLines(lines, 1)
    IN [done |-> TRUE, display_lines |-> lines, chars |-> cs,
        idx_to_pos |-> idx_to_pos(cs), total_chars |-> Len(cs),
        wrap_width |-> wd]

(* ---------------- sequences ---------------- *)
Last(s) == s[Len(s)]

Front(s) == SubSeq(s, 1, Len(s) - 1)

Min(a, b) == IF a <= b THEN a ELSE b

Max(a, b) == IF a >= b THEN a ELSE b

\* chars[i] with Python's 0-based index
At(seq, i) == seq[i + 1]

(* ---------------- smart delete (Ctrl+W) ---------------- *)
RECURSIVE PopSpace(_)
\* while buffer and buffer[-1].isspace(): buffer.pop()
PopSpace(buffer) ==
    IF Len(buffer) > 0 /\ isspace(Last(buffer))
    THEN PopSpace(Front(buffer)) ELSE buffer

RECURSIVE PopWord(_)
\* while buffer and is_word_char(buffer[-1]): buffer.pop()
PopWord(buffer) ==
    IF Len(buffer) > 0 /\ is_word_char(Last(buffer))
    THEN PopWord(Front(buffer)) ELSE buffer

RECURSIVE PopPunct(_)
\* while buffer and not is_word_char(buffer[-1]) and not buffer[-1].isspace()
PopPunct(buffer) ==
    IF Len(buffer) > 0 /\ ~is_word_char(Last(buffer)) /\ ~isspace(Last(buffer))
    THEN PopPunct(Front(buffer)) ELSE buffer

\* smart delete that also takes the separator in front of the removed word
smart_delete_with_separator(buffer) ==
    IF Len(buffer) = 0 THEN buffer
    ELSE LET b1 == PopSpace(buffer) IN
         IF Len(b1) = 0 THEN b1
         ELSE IF is_word_char(Last(b1)) THEN PopSpace(PopWord(b1))
         ELSE PopWord(PopSpace(PopPunct(b1)))

\* a smart delete that gives up at punctuation
smart_delete_words_only(buffer) ==
    IF Len(buffer) = 0 THEN buffer
    ELSE LET b1 == PopSpace(buffer) IN
         IF Len(b1) = 0 THEN b1
         ELSE IF is_word_char(Last(b1)) THEN PopWord(b1)
         ELSE b1

\* The buffer left by smart_delete_prev_word_buffer; the function's return
\* value (removed) is the difference of the lengths.
smart_delete_prev_word_buffer(buffer) ==
    IF Len(buffer) = 0 THEN buffer
    ELSE LET b1 == PopSpace(buffer) IN
         IF Len(b1) = 0 THEN b1
         ELSE IF is_word_char(Last(b1)) THEN PopWord(b1)
         ELSE PopWord(PopSpace(PopPunct(b1)))

Removed(buffer) == Len(buffer) - Len(smart_delete_prev_word_buffer(buffer))

(* ---------------- session state and scoring ---------------- *)
\* A session state is a record
\*   [position, entered_buffer, score, streak, multiplier]
\* of main_curses' locals and the global typed buffer.

\* compute_stats: (typed, correct, incorrect)
compute_stats(buffer, chars) ==
    LET typed == Len(buffer)
        correct == Cardinality({i \in 0 .. typed - 1 :
                                  i < Len(chars) /\ At(buffer, i) = At(chars, i)})
    IN [typed |-> typed, correct |-> correct, incorrect |-> typed - correct]

RECURSIVE ScanBack(_, _)
\* i = end_index - 1; while i >= 0 and not chars[i].isspace(): i -= 1
ScanBack(chars, i) ==
    IF i >= 0 /\ ~isspace(At(chars, i)) THEN ScanBack(chars, i - 1) ELSE i

WordStart(chars, end_index) == ScanBack(chars, end_index - 1) + 1

\* award_word_if_correct with the multiplier raised before the gain is computed
award_word_raising_first(s, chars, end_index) ==
    LET word_start == WordStart(chars, end_index)
        word_len == end_index - word_start
        raised == Min(MULTIPLIER_MAX, s.multiplier + MULTIPLIER_STEP)
    IN IF word_len <= 0 \/ Len(s.entered_buffer) < end_index THEN s
       ELSE IF \A k \in word_start .. end_index - 1 :
                   At(s.entered_buffer, k) = At(chars, k)
       THEN [s EXCEPT !.score = @ + BASE_POINT_FACTOR * word_len * raised,
                      !.streak = @ + 1,
                      !.multiplier = raised]
       ELSE s

\* award_word_if_correct without the comparison of the typed word
award_word_unchecked(s, chars, end_index) ==
    LET word_start == WordStart(chars, end_index)
        word_len == end_index - word_start
    IN IF word_len <= 0 THEN s
       ELSE [s EXCEPT !.score = @ + BASE_POINT_FACTOR * word_len * s.multiplier,
                      !.streak = @ + 1,
                      !.multiplier = Min(MULTIPLIER_MAX, @ + MULTIPLIER_STEP)]

\* award_word_if_correct with the multiplier raised without the cap
award_word_uncapped(s, chars, end_index) ==
    LET word_start == WordStart(chars, end_index)
        word_len == end_index - word_start
    IN IF word_len <= 0 \/ Len(s.entered_buffer) < end_index THEN s
       ELSE IF \A k \in word_start .. end_index - 1 :
                   At(s.entered_buffer, k) = At(chars, k)
       THEN [s EXCEPT !.score = @ + BASE_POINT_FACTOR * word_len * s.multiplier,
                      !.streak = @ + 1,
                      !.multiplier = @ + MULTIPLIER_STEP]
       ELSE s

\* award_word_if_correct guarded against a second award while a streak stands
award_word_first_only(s, chars, end_index) ==
    LET word_start == WordStart(chars, end_index)
        word_len == end_index - word_start
    IN IF word_len <= 0 \/ Len(s.entered_buffer) < end_index \/ s.streak > 0 THEN s
       ELSE IF \A k \in word_start .. end_index - 1 :
                   At(s.entered_buffer, k) = At(chars, k)
       THEN [s EXCEPT !.score = @ + BASE_POINT_FACTOR * word_len * s.multiplier,
                      !.streak = @ + 1,
                      !.multiplier = Min(MULTIPLIER_MAX, @ + MULTIPLIER_STEP)]
       ELSE s

\* award_word_if_correct(end_index) on session state s
award_word_if_correct(s, chars, end_index) ==
    LET word_start == WordStart(chars, end_index)
        word_end == end_index
        word_len == word_end - word_start
    IN IF word_len <= 0 THEN s
       ELSE IF Len(s.entered_buffer) < word_end THEN s
       ELSE IF \A k \in word_start .. word_end - 1 :
                   At(s.entered_buffer, k) = At(chars, k)
       THEN [s EXCEPT !.score = @ + BASE_POINT_FACTOR * word_len * s.multiplier,
                      !.streak = @ + 1,
                      !.multiplier = Min(MULTIPLIER_MAX, @ + MULTIPLIER_STEP)]
       ELSE s

\* a reset of the streak that leaves the multiplier standing
reset_streak_only(s) == [s EXCEPT !.streak = 0]

reset_streak_due_to_error(s) ==
    [s EXCEPT !.streak = 0, !.multiplier = MULTIPLIER_START]

\* the award keyed off the typed character instead of the expected one
AwardAfterAppendTyped(s, chars) ==
    IF s.position - 1 < Len(chars) /\ isspace(Last(s.entered_buffer))
    THEN award_word_if_correct(s, chars, s.position - 1)
    ELSE s

\* the award made after a key was appended at index position - 1
AwardAfterAppend(s, chars) ==
    IF s.position - 1 < Len(chars) /\ isspace(At(chars, s.position - 1))
    THEN award_word_if_correct(s, chars, s.position - 1)
    ELSE s

\* Enter handled like a regular character: a mismatch resets the streak
OnEnterResetting(s, chars) ==
    LET miss == IF s.position < Len(chars) THEN "\n" # At(chars, s.position) ELSE TRUE
        s1 == [s EXCEPT !.entered_buffer = Append(@, "\n"), !.position = @ + 1]
    IN AwardAfterAppend(IF miss THEN [s1 EXCEPT !.streak = 0,
                                                !.multiplier = MULTIPLIER_START]
                        ELSE s1, chars)

\* Enter (ord 10 or 13): lines 625-631
OnEnter(s, chars) ==
    AwardAfterAppend([s EXCEPT !.entered_buffer = Append(@, "\n"),
                               !.position = @ + 1], chars)

\* a regular character: lines 632-642
OnPrintable(s, chars, ch) ==
    LET miss == IF s.position < Len(chars) THEN ch # At(chars, s.position) ELSE TRUE
        s1 == [s EXCEPT !.entered_buffer = Append(@, ch), !.position = @ + 1]
        s2 == IF miss THEN reset_streak_due_to_error(s1) ELSE s1
    IN AwardAfterAppend(s2, chars)

\* a Backspace that counts as an error and resets the streak
OnBackspaceResetting(s) ==
    IF Len(s.entered_buffer) > 0
    THEN [s EXCEPT !.entered_buffer = Front(@), !.position = Max(0, @ - 1),
                   !.streak = 0, !.multiplier = MULTIPLIER_START]
    ELSE s

\* Backspace, as a character (8, 127) or as curses.KEY_BACKSPACE
OnBackspace(s) ==
    IF Len(s.entered_buffer) > 0
    THEN [s EXCEPT !.entered_buffer = Front(@), !.position = Max(0, @ - 1)]
    ELSE s

\* a smart delete that takes the points back with the words
OnSmartDeleteUnscoring(s) ==
    [s EXCEPT !.entered_buffer = smart_delete_prev_word_buffer(@),
              !.position = Max(0, @ - Removed(s.entered_buffer)),
              !.score = 0]

\* Ctrl+W: lines 616-619
OnSmartDelete(s) ==
    [s EXCEPT !.entered_buffer = smart_delete_prev_word_buffer(@),
              !.position = Max(0, @ - Removed(s.entered_buffer))]

\* the completion check of the main loop, line 654
Complete(s, chars) == s.position >= Len(chars)

(* ---------------- accuracy ---------------- *)
\* The accuracy calculate_stats returns, in hundredths of a percent (the
\* summary prints two decimals): line 267.
calculate_stats(correct_chars, typed_chars) ==
    IF typed_chars > 0 THEN (correct_chars * 10000) \div typed_chars ELSE 10000

\* accuracy_now of draw(), the live statistics: lines 483-485
accuracy_now(buffer, chars) ==
    LET st == compute_stats(buffer, chars)
    IN IF st.typed > 0 THEN (st.correct * 10000) \div st.typed ELSE 10000

\* accuracy of the final summary: lines 662-666
final_accuracy(buffer, chars) ==
    LET st == compute_stats(buffer, chars)
    IN calculate_stats(st.correct, IF st.typed > 0 THEN st.typed ELSE 1)

(* ---------------- snapshot files ---------------- *)
\* What a reader finds at a save path.  kind is one of
\*   "absent"        no file (os.path.exists is false)
\*   "unreadable"    open() raises
\*   "invalid_json"  json.load raises (this is also what a partially
\*                   written file is)
\*   "json_falsy"    valid JSON that is falsy in Python: {}, [], 0, "", null
\*   "json_nondict"  valid JSON that is truthy and no object: [1], "x", 7
\*   "dict"          a JSON object; badpos says its position is no number
\*                   (int() raises on it), has_raw that raw_entered is a list
File(kind, filename, badpos, has_raw, s) ==
    [kind |-> kind, filename |-> filename, badpos |-> badpos,
     has_raw |-> has_raw, position |-> s.position, raw_entered |-> s.entered_buffer,
     score |-> s.score, streak |-> s.streak, multiplier |-> s.multiplier]

\* the state main_curses starts a fresh session with: lines 392-399
FreshState(buffer) ==
    [position |-> 0, entered_buffer |-> buffer, score |-> 0, streak |-> 0,
     multiplier |-> MULTIPLIER_START]

Junk(kind) == File(kind, 0, FALSE, FALSE, FreshState(<< >>))

NoFile == Junk("absent")

PartialFile == Junk("invalid_json")

\* A snapshot of text 1 left by an earlier process run: "a " typed, and the
\* word awarded 45 times by backspacing over the separator and retyping it
\* (0.5 + 45 * 0.1 = 5.0; score = sum of 10 * 1 * (0.5 + 0.1 k), k = 0..44,
\* which is 1215.0).
VeteranSnapshot ==
    File("dict", 1, FALSE, TRUE,
         [position |-> 2, entered_buffer |-> <<"a", " ">>, score |-> 12150,
          streak |-> 45, multiplier |-> 50])

\* the files the run may find at a save path when it starts (the damaged
\* ones are tried at the --save path, which is read without a prompt)
PreExisting ==
    {NoFile, Junk("unreadable"), Junk("invalid_json"), Junk("json_falsy"),
     Junk("json_nondict"),
     File("dict", 1, TRUE, TRUE, FreshState(<< >>)),
     File("dict", 1, TRUE, FALSE, FreshState(<< >>)),
     VeteranSnapshot}

\* save paths: 0 is the path given with --save, t is
\* default_save_path_for_file of text file t
Paths == {0} \cup TextIds

(* ---------------- state ---------------- *)
VARIABLES
    pc,               \* where the process is: see Init and the actions
    round,            \* iterations of main()'s outer loop started so far
    nkeys,            \* key events delivered so far (bounded by MaxKeys)
    save_specified,   \* args.save was given
    source_filename,  \* the text file of this round (0 before the first)
    loaded_state,     \* main()'s loaded_state: a "dict"/"json_nondict" file, or NoFile for None
    load_err,         \* load_progress_file reported a failure this round
    position,         \* main_curses: position
    entered_buffer,   \* the module-level typed buffer
    score,            \* main_curses: score (tenths)
    streak,           \* main_curses: streak
    multiplier,       \* main_curses: multiplier (tenths)
    ch,               \* main_curses: the last value of ch
    save_result,      \* (ok, err) of the last save_progress call of the session
    disk,             \* the file at each save path
    twin,             \* the uninterrupted session a resumed session is compared with
    text,             \* preprocess_text: the text argument
    width,            \* preprocess_text: the width argument
    prep              \* preprocess_text: the dict it returned (NoPrep before the call)

vars == <<pc, round, nkeys, save_specified, source_filename, loaded_state,
          load_err, position, entered_buffer, score, streak, multiplier, ch,
          save_result, disk, twin, text, width, prep>>

\* the variables of a preprocess_text call
prepvars == <<text, width, prep>>

session == <<position, entered_buffer, score, streak, multiplier>>

\* the session state as a record
Cur ==
    [position |-> position, entered_buffer |-> entered_buffer, score |-> score,
     streak |-> streak, multiplier |-> multiplier]

SetSession(s) ==
    /\ position' = s.position
    /\ entered_buffer' = s.entered_buffer
    /\ score' = s.score
    /\ streak' = s.streak
    /\ multiplier' = s.multiplier

chars == Chars(source_filename)

total_chars == Len(chars)

NoTwin == [active |-> FALSE, running |-> FALSE, s |-> FreshState(<< >>)]

\* no preprocess_text call is being followed
NoPrep == [done |-> FALSE]

PrepIdle == text = << >> /\ width = 0 /\ prep = NoPrep

Init ==
    /\ pc = "menu"
    /\ round = 0
    /\ nkeys = 0
    /\ save_specified \in BOOLEAN
    /\ \E f \in PreExisting :
          /\ (~save_specified => f \in {NoFile, VeteranSnapshot})
          /\ disk = [p \in Paths |->
                       IF p = (IF save_specified THEN 0 ELSE 1) THEN f ELSE NoFile]
    /\ source_filename = 0
    /\ loaded_state = NoFile
    /\ load_err = FALSE
    /\ position = 0
    /\ entered_buffer = << >>
    /\ score = 0
    /\ streak = 0
    /\ multiplier = MULTIPLIER_START
    /\ ch = "None"
    /\ save_result = "none"
    /\ twin = NoTwin
    /\ PrepIdle

(* ---------------- main(): choosing a text, loading a save ------------- *)
\* the path Ctrl+S writes and main() reads: lines 592-599 and 803-813
SavePath == IF save_specified THEN 0 ELSE source_filename

\* load_progress_file: the data it returns, NoFile standing for None
load_progress_file(f) ==
    IF f.kind \in {"unreadable", "invalid_json"} THEN NoFile ELSE f

\* Python's truth value of the loaded data ("if data:")
Truthy(f) == f.kind \in {"json_nondict", "dict"}

\* one iteration of main()'s loop begins: a text file is chosen in the menu
ChooseText(t) ==
    /\ pc = "menu"
    /\ round < MaxRounds
    /\ round' = round + 1
    /\ source_filename' = t
    /\ loaded_state' = NoFile
    /\ load_err' = FALSE
    /\ pc' = "load"
    /\ UNCHANGED <<prepvars, nkeys, save_specified, session, ch, save_result, disk, twin>>

\* lines 800-828; ans is the answer to "Continue where you left off?"
LoadSave(ans) ==
    /\ pc = "load"
    /\ LET f == disk[SavePath]
           asked == ~save_specified /\ f.kind # "absent"
           reads == f.kind # "absent" /\ (save_specified \/ ans = "y")
           data == load_progress_file(f)
       IN /\ (~asked => ans = "y")
          /\ loaded_state' = IF reads /\ Truthy(data) THEN data ELSE NoFile
          /\ load_err' = (reads /\ ~Truthy(data))
    /\ pc' = "restore"
    /\ UNCHANGED <<prepvars, round, nkeys, save_specified, source_filename, session, ch,
                   save_result, disk, twin>>

\* a restore that takes raw_entered or nothing: no buffer is synthesized
RestoredBufferRawOnly(ls, cs, pos) ==
    IF ls.has_raw THEN ls.raw_entered ELSE << >>

\* the typed buffer a loaded state is restored to; pos is its position
RestoredBuffer(ls, cs, pos) ==
    IF ls.has_raw THEN ls.raw_entered
    ELSE SubSeq(cs, 1, Min(pos, Len(cs)))

\* lines 857-869: main() restores the typed buffer from the loaded state
RestoreMain ==
    /\ pc = "restore"
    /\ IF loaded_state.kind = "absent"
       THEN /\ pc' = "init"
            /\ UNCHANGED entered_buffer
       ELSE IF loaded_state.kind = "json_nondict"
                 \/ (~loaded_state.has_raw /\ loaded_state.badpos)
       THEN \* loaded_state.get or int() raises, outside any try
            /\ pc' = "crash"
            /\ UNCHANGED entered_buffer
       ELSE /\ pc' = "init"
            /\ entered_buffer' =
                 RestoredBuffer(loaded_state, chars, loaded_state.position)
    /\ UNCHANGED <<prepvars, round, nkeys, save_specified, source_filename, loaded_state,
                   load_err, position, score, streak, multiplier, ch,
                   save_result, disk, twin>>

\* main_curses, lines 392-420: the state the session starts in
StartState(ls, cs, buffer) ==
    IF ls.kind = "absent" THEN FreshState(buffer)
    ELSE LET pos == Min(ls.position, Len(cs))
         IN [position |-> pos,
             entered_buffer |-> RestoredBuffer(ls, cs, pos),
             score |-> ls.score, streak |-> ls.streak,
             multiplier |-> ls.multiplier]

\* the uninterrupted session a resumed one is compared with: the state the
\* snapshot was saved in, on the same text
StartTwin(ls, src) ==
    IF ls.kind = "dict" /\ ls.has_raw /\ ~ls.badpos /\ ls.filename = src
    THEN [active |-> TRUE, running |-> TRUE,
          s |-> [position |-> ls.position, entered_buffer |-> ls.raw_entered,
                 score |-> ls.score, streak |-> ls.streak,
                 multiplier |-> ls.multiplier]]
    ELSE NoTwin

\* curses.wrapper(main_curses, ...) up to the main loop
InitSession ==
    /\ pc = "init"
    /\ IF loaded_state.kind = "dict" /\ loaded_state.badpos
       THEN \* int() raises in main_curses; main() catches it and returns
            /\ pc' = "ui_error"
            /\ UNCHANGED <<session, twin>>
       ELSE /\ pc' = "loop"
            /\ SetSession(StartState(loaded_state, chars, entered_buffer))
            /\ twin' = StartTwin(loaded_state, source_filename)
    /\ ch' = "None"
    /\ save_result' = "none"
    /\ UNCHANGED <<prepvars, round, nkeys, save_specified, source_filename, loaded_state,
                   load_err, disk>>

(* ---------------- saving ---------------- *)
\* How a save can go.  shutil.move is tried only when os.replace raised; it
\* renames or, when the rename fails too, copies over the destination, which
\* truncates the destination before the copy is complete.
SaveOutcomes ==
    {"replaced",        \* the temporary file was written, os.replace succeeded
     "write_failed",    \* open, json.dump, flush or fsync of the temporary file raised
     "moved",           \* os.replace raised, shutil.move succeeded
     "move_failed",     \* os.replace raised, shutil.move raised before writing
     "move_partial"}    \* os.replace raised, shutil.move raised during its copy

\* the outcomes in which a step of the save failed and was not made up for
FailedOutcomes == {"write_failed", "move_failed", "move_partial"}

\* safe_write_json: the disk it leaves and whether it raised
safe_write_json(d, path, data, outcome) ==
    IF outcome \in {"replaced", "moved"}
    THEN [disk |-> [d EXCEPT ![path] = data], raised |-> FALSE]
    ELSE IF outcome = "move_partial"
    THEN [disk |-> [d EXCEPT ![path] = PartialFile], raised |-> TRUE]
    ELSE [disk |-> d, raised |-> TRUE]

\* save_progress without its try/except: the exception reaches the caller
save_progress_uncaught(d, path, filename, s, outcome) ==
    LET data == File("dict", filename, FALSE, TRUE, s)
        w == safe_write_json(d, path, data, outcome)
    IN [disk |-> w.disk,
        result |-> IF w.raised THEN "failed" ELSE "ok",
        raised |-> w.raised]

\* save_progress: metadata plus raw_entered is written; (ok, err) is returned
save_progress(d, path, filename, s, outcome) ==
    LET data == File("dict", filename, FALSE, TRUE, s)
        w == safe_write_json(d, path, data, outcome)
    IN [disk |-> w.disk,
        result |-> IF w.raised THEN "failed" ELSE "ok",
        raised |-> FALSE]

(* ---------------- main_curses: the main loop ---------------- *)
KeyGuard ==
    /\ pc = "loop"
    /\ nkeys < MaxKeys
    /\ nkeys' = nkeys + 1

\* the twin after the same event: s2 is its state after the handler, check
\* says whether this iteration reaches the completion check
TwinNext(s2, check) ==
    IF twin.active /\ twin.running
    THEN [twin EXCEPT !.s = s2, !.running = ~(check /\ Complete(s2, chars))]
    ELSE twin

\* the characters the model types as regular characters
PrintableKeys == {"a", ",", " "}

Frame == <<round, save_specified, source_filename, loaded_state, load_err>>

\* a regular character, then the completion check
KeyPrintable(c) ==
    /\ KeyGuard
    /\ ch' = c
    /\ LET s2 == OnPrintable(Cur, chars, c)
       IN /\ SetSession(s2)
          /\ pc' = IF Complete(s2, chars) THEN "summary" ELSE "loop"
    /\ twin' = TwinNext(OnPrintable(twin.s, chars, c), TRUE)
    /\ UNCHANGED <<Frame, prepvars, save_result, disk>>

\* Enter; the handler ends in continue, so no completion check
KeyEnter ==
    /\ KeyGuard
    /\ ch' = "\n"
    /\ SetSession(OnEnter(Cur, chars))
    /\ pc' = "loop"
    /\ twin' = TwinNext(OnEnter(twin.s, chars), FALSE)
    /\ UNCHANGED <<Frame, prepvars, save_result, disk>>

\* Backspace as a character (8 or 127); continue
KeyBackspaceChar ==
    /\ KeyGuard
    /\ ch' = "^H"
    /\ SetSession(OnBackspace(Cur))
    /\ pc' = "loop"
    /\ twin' = TwinNext(OnBackspace(twin.s), FALSE)
    /\ UNCHANGED <<Frame, prepvars, save_result, disk>>

\* curses.KEY_BACKSPACE, then the completion check
KeyBackspaceSpecial ==
    /\ KeyGuard
    /\ ch' = "KEY_BACKSPACE"
    /\ LET s2 == OnBackspace(Cur)
       IN /\ SetSession(s2)
          /\ pc' = IF Complete(s2, chars) THEN "summary" ELSE "loop"
    /\ twin' = TwinNext(OnBackspace(twin.s), TRUE)
    /\ UNCHANGED <<Frame, prepvars, save_result, disk>>

\* Ctrl+W; continue
KeySmartDelete ==
    /\ KeyGuard
    /\ ch' = "^W"
    /\ SetSession(OnSmartDelete(Cur))
    /\ pc' = "loop"
    /\ twin' = TwinNext(OnSmartDelete(twin.s), FALSE)
    /\ UNCHANGED <<Frame, prepvars, save_result, disk>>

\* Ctrl+S: lines 577-615; continue
KeySave(outcome) ==
    /\ KeyGuard
    /\ ch' = "^S"
    /\ LET r == save_progress(disk, SavePath, source_filename, Cur, outcome)
       IN /\ disk' = r.disk
          /\ save_result' = r.result
          /\ pc' = IF r.raised THEN "crash" ELSE "loop"
    /\ twin' = TwinNext(twin.s, FALSE)
    /\ UNCHANGED <<Frame, prepvars, session>>

\* ESC (27) or curses.KEY_EXIT: break
KeyQuit(k) ==
    /\ KeyGuard
    /\ ch' = k
    /\ pc' = "summary"
    /\ twin' = IF twin.active THEN [twin EXCEPT !.running = FALSE] ELSE twin
    /\ UNCHANGED <<Frame, prepvars, session, save_result, disk>>

\* any other special key: ignored, then the completion check
KeyOther ==
    /\ KeyGuard
    /\ ch' = "KEY_OTHER"
    /\ pc' = IF Complete(Cur, chars) THEN "summary" ELSE "loop"
    /\ twin' = TwinNext(twin.s, TRUE)
    /\ UNCHANGED <<Frame, prepvars, session, save_result, disk>>

\* get_wch raised curses.error (no key pending): only the completion check
NoKey ==
    /\ pc = "loop"
    /\ ch' = "None"
    /\ pc' = IF Complete(Cur, chars) THEN "summary" ELSE "loop"
    /\ twin' = TwinNext(twin.s, TRUE)
    /\ UNCHANGED <<Frame, prepvars, nkeys, session, save_result, disk>>

\* the final summary is shown, main_curses returns, and main() asks what to
\* do next: "1" and "2" start another round, anything else exits
NextChoice(c) ==
    /\ pc = "summary"
    /\ pc' = IF c \in {"1", "2"} THEN "menu" ELSE "exit"
    /\ UNCHANGED <<Frame, prepvars, nkeys, session, ch, save_result, disk, twin>>

Next ==
    \/ \E t \in TextIds : ChooseText(t)
    \/ \E ans \in {"y", "n"} : LoadSave(ans)
    \/ RestoreMain
    \/ InitSession
    \/ \E c \in PrintableKeys : KeyPrintable(c)
    \/ KeyEnter
    \/ KeyBackspaceChar
    \/ KeyBackspaceSpecial
    \/ KeySmartDelete
    \/ \E o \in SaveOutcomes : KeySave(o)
    \/ \E k \in {"ESC", "KEY_EXIT"} : KeyQuit(k)
    \/ KeyOther
    \/ NoKey
    \/ \E c \in {"1", "2", "3"} : NextChoice(c)

Spec == Init /\ [][Next]_vars

(* ---------------- the helpers applied to given arguments -------------- *)
\* longest typed buffer enumerated for a word-boundary evaluation
MaxAwardLen == 3

\* longest typed buffer enumerated for smart delete
MaxDeleteLen == 4

\* smart deletes applied in a row to one buffer
MaxDeleteCalls == 4

SeqsUpTo(S, n) == UNION {[1 .. k -> S] : k \in 0 .. n}

Prefixes(seq) == {SubSeq(seq, 1, k) : k \in 0 .. Len(seq)}

HelloWorld == <<"h", "e", "l", "l", "o", ",", " ", "w", "o", "r", "l", "d">>

\* typed buffers a word-boundary evaluation on text t is given
AwardBuffers(t) ==
    IF t = 3
    THEN Prefixes(Chars(3))
           \cup {<<"c", "o", "t", " ">>, <<"c", "o", "t">>,
                 <<"c", "a", "t", "\n">>, <<"c", "a", "t", " ", "d", "o", "t">>}
    ELSE SeqsUpTo({"a", " "}, MaxAwardLen) \cup Prefixes(Chars(t))

\* typed buffers smart delete is given
DeleteBuffers ==
    SeqsUpTo({"a", ",", " ", "\n"}, MaxDeleteLen)
      \cup {HelloWorld, <<"a", "_", "a">>, <<"a", "\t">>}

\* The state in which award_word_if_correct (pc "award_call") or
\* smart_delete_prev_word_buffer (pc "delete_call") is about to be applied:
\* the arguments are drawn from the sets above, main()'s variables are idle.
InitUnit ==
    /\ round = 0
    /\ nkeys = 0
    /\ save_specified = FALSE
    /\ disk = [p \in Paths |-> NoFile]
    /\ loaded_state = NoFile
    /\ load_err = FALSE
    /\ ch = "None"
    /\ save_result = "none"
    /\ twin = NoTwin
    /\ PrepIdle
    /\ \/ /\ pc = "award_call"
          /\ source_filename \in {1, 3, 4}
          /\ position \in 1 .. TotalChars(source_filename)
          /\ entered_buffer \in AwardBuffers(source_filename)
          /\ score \in {0, 125}
          /\ streak \in {0, 2, 45}
          /\ multiplier = Min(MULTIPLIER_MAX, MULTIPLIER_START + streak * MULTIPLIER_STEP)
       \/ /\ pc = "delete_call"
          /\ source_filename = 1
          /\ entered_buffer \in DeleteBuffers
          /\ position = Len(entered_buffer)
          /\ score = 0
          /\ streak = 0
          /\ multiplier = MULTIPLIER_START

\* the evaluation made after the key at index position - 1 was appended:
\* lines 629-630 and 640-641
AwardCall ==
    /\ pc = "award_call"
    /\ pc' = "award_done"
    /\ SetSession(AwardAfterAppend(Cur, chars))
    /\ UNCHANGED <<Frame, prepvars, nkeys, ch, save_result, disk, twin>>

\* the Ctrl+W branch, lines 616-619, applied to the buffer again and again
DeleteCall ==
    /\ pc = "delete_call"
    /\ nkeys < MaxDeleteCalls
    /\ nkeys' = nkeys + 1
    /\ SetSession(OnSmartDelete(Cur))
    /\ ch' = "^W"
    /\ UNCHANGED <<Frame, prepvars, pc, save_result, disk, twin>>

NextUnit == AwardCall \/ DeleteCall

SpecUnit == InitUnit /\ [][NextUnit]_vars

(* ---------------- main_curses on the empty text ---------------------- *)
\* main_curses called with preprocess_text("") and no loaded state, the save
\* path being the one given with --save.  main() replaces an empty file or
\* an empty paste by its sample text, so this call is not made through the
\* menu.
InitEmpty ==
    /\ pc = "init"
    /\ round = 1
    /\ nkeys = 0
    /\ save_specified = TRUE
    /\ disk = [p \in Paths |-> NoFile]
    /\ source_filename = 5
    /\ loaded_state = NoFile
    /\ load_err = FALSE
    /\ position = 0
    /\ entered_buffer = << >>
    /\ score = 0
    /\ streak = 0
    /\ multiplier = MULTIPLIER_START
    /\ ch = "None"
    /\ save_result = "none"
    /\ twin = NoTwin
    /\ PrepIdle

NextEmpty ==
    \/ InitSession
    \/ \E c \in PrintableKeys : KeyPrintable(c)
    \/ KeyEnter
    \/ KeyBackspaceChar
    \/ KeyBackspaceSpecial
    \/ KeySmartDelete
    \/ \E o \in SaveOutcomes : KeySave(o)
    \/ \E k \in {"ESC", "KEY_EXIT"} : KeyQuit(k)
    \/ KeyOther
    \/ NoKey
    \/ \E c \in {"1", "2", "3"} : NextChoice(c)

SpecEmpty == InitEmpty /\ [][NextEmpty]_vars

(* ---------------- preprocess_text applied to given texts -------------- *)
\* longest text given to preprocess_text
MaxTextLen == 4

\* largest wrap width given to preprocess_text
MaxWidth == 3

PrepTexts == SeqsUpTo({"a", " ", "\t", "\n"}, MaxTextLen)

\* preprocess_text is about to be called; width 0 stands for the widths
\* that are replaced by the default
InitPrep ==
    /\ pc = "prep_call"
    /\ round = 0
    /\ nkeys = 0
    /\ save_specified = FALSE
    /\ disk = [p \in Paths |-> NoFile]
    /\ source_filename = 0
    /\ loaded_state = NoFile
    /\ load_err = FALSE
    /\ position = 0
    /\ entered_buffer = << >>
    /\ score = 0
    /\ streak = 0
    /\ multiplier = MULTIPLIER_START
    /\ ch = "None"
    /\ save_result = "none"
    /\ twin = NoTwin
    /\ text \in PrepTexts
    /\ width \in 0 .. MaxWidth
    /\ prep = NoPrep

\* preprocess_text(text, width): lines 156-214
Preprocess ==
    /\ pc = "prep_call"
    /\ pc' = "prep_done"
    /\ prep' = preprocess_text(text, width)
    /\ UNCHANGED <<Frame, nkeys, session, ch, save_result, disk, twin, text, width>>

\* main_curses takes the dict over and builds the position map itself when
\* the dict has none: lines 422-431
BuildMap ==
    /\ pc = "prep_done"
    /\ pc' = "prep_used"
    /\ prep' = [prep EXCEPT !.idx_to_pos =
                  IF Len(@) = 0 /\ Len(prep.chars) > 0
                  THEN idx_to_pos(prep.chars) ELSE @]
    /\ UNCHANGED <<Frame, nkeys, session, ch, save_result, disk, twin, text, width>>

NextPrep == Preprocess \/ BuildMap

SpecPrep == InitPrep /\ [][NextPrep]_vars

(* ---------------- resuming a snapshot without raw_entered ------------- *)
\* A snapshot of text t without the raw_entered list, as a version of the
\* program that did not write the list left it.
LegacySnapshot(t, pos, sc, st) ==
    File("dict", t, FALSE, FALSE,
         [position |-> pos, entered_buffer |-> << >>, score |-> sc,
          streak |-> st,
          multiplier |-> Min(MULTIPLIER_MAX, MULTIPLIER_START + st * MULTIPLIER_STEP)])

\* main() has read such a snapshot at the --save path (lines 800-828) and is
\* about to restore it; the stored position runs up to one past the end of
\* the text.
InitLegacy ==
    /\ pc = "restore"
    /\ round = 1
    /\ nkeys = 0
    /\ save_specified = TRUE
    /\ source_filename \in {1, 2, 3, 4}
    /\ \E pos \in 0 .. TotalChars(source_filename) + 1, sc \in {0, 125}, st \in {0, 2} :
          loaded_state = LegacySnapshot(source_filename, pos, sc, st)
    /\ disk = [p \in Paths |-> IF p = 0 THEN loaded_state ELSE NoFile]
    /\ load_err = FALSE
    /\ position = 0
    /\ entered_buffer = << >>
    /\ score = 0
    /\ streak = 0
    /\ multiplier = MULTIPLIER_START
    /\ ch = "None"
    /\ save_result = "none"
    /\ twin = NoTwin
    /\ PrepIdle

NextLegacy ==
    \/ RestoreMain
    \/ InitSession
    \/ \E k \in {"ESC", "KEY_EXIT"} : KeyQuit(k)
    \/ NoKey

SpecLegacy == InitLegacy /\ [][NextLegacy]_vars

(* ======================= claims ======================= *)
\* a session is alive: main_curses is in its loop or has just left it
InSession == pc \in {"loop", "summary"}

\* a snapshot the program itself wrote for file src
OwnSnapshot(f, src) ==
    f.kind = "dict" /\ f.has_raw /\ ~f.badpos /\ f.filename = src

\* C1: in every reachable state of a session the length of the typed buffer
\* equals the cursor position.
C1_BufferLengthIsPosition == InSession => Len(entered_buffer) = position

\* C2: in every reachable state of a session 0 <= position <= total_chars.
C2_PositionWithinStream == InSession => (0 <= position /\ position <= total_chars)

\* C3: snapshot round trip.  A successful save writes the session's position,
\* score, streak, multiplier and typed buffer, and a session restored from a
\* snapshot the program wrote for the same text starts with exactly the
\* snapshot's position, score, streak, multiplier and typed buffer.
C3_SnapshotRoundTrip ==
    [][/\ ((\E o \in SaveOutcomes : KeySave(o)) /\ save_result' = "ok"
             => disk'[SavePath] = File("dict", source_filename, FALSE, TRUE, Cur))
       /\ (InitSession /\ OwnSnapshot(loaded_state, source_filename)
             => /\ pc' = "loop"
                /\ position' = loaded_state.position
                /\ entered_buffer' = loaded_state.raw_entered
                /\ score' = loaded_state.score
                /\ streak' = loaded_state.streak
                /\ multiplier' = loaded_state.multiplier)]_vars

\* C4: resume equivalence.  A session restored from a snapshot of the same
\* text is, after every further key event, in the same state (position, typed
\* buffer, score, streak, multiplier, correct and incorrect counts, and
\* whether it has ended) as the session that was never interrupted.
C4_ResumeEquivalence ==
    (InSession /\ twin.active) =>
        /\ twin.s = Cur
        /\ compute_stats(twin.s.entered_buffer, chars)
             = compute_stats(entered_buffer, chars)
        /\ twin.running = (pc = "loop")

\* C5: atomic save.  A save that fails leaves the file at the destination
\* path exactly as it was before the save.
C5_FailedSaveKeepsOldFile ==
    [][(\E o \in FailedOutcomes : KeySave(o))
         => disk'[SavePath] = disk[SavePath]]_vars

\* C6: a failed save returns a failure result instead of raising: the session
\* stays in its loop with position, typed buffer, score, streak and multiplier
\* as they were before the save command.
C6_FailedSaveKeepsSession ==
    [][(\E o \in FailedOutcomes : KeySave(o))
         => /\ save_result' = "failed"
            /\ pc' = "loop"
            /\ UNCHANGED session]_vars

\* C6 witness: a save failed in a session that had typed and scored
C6_Witness ==
    /\ pc = "loop" /\ ch = "^S" /\ save_result = "failed"
    /\ Len(entered_buffer) > 0 /\ score > 0

\* a file that is unreadable, no JSON, or JSON of the wrong shape
Malformed(f) ==
    \/ f.kind \in {"unreadable", "invalid_json", "json_falsy", "json_nondict"}
    \/ (f.kind = "dict" /\ f.badpos)

\* the save file of this round was read by load_progress_file
WasRead == load_err \/ loaded_state.kind # "absent"

\* C7: when the save file that is read is malformed, the load reports a
\* failure, nothing crashes, and the session starts fresh: position 0, empty
\* typed buffer, score 0, streak 0, multiplier MULTIPLIER_START.
C7_MalformedLoadStartsFresh ==
    [][(Malformed(disk[SavePath]) /\ WasRead) =>
         /\ (RestoreMain => (load_err /\ pc' = "init"))
         /\ (InitSession => (pc' = "loop" /\ Cur' = FreshState(<< >>)))]_vars

\* the key typed at index position is a miss: line 637
Miss(c) == position >= total_chars \/ c # At(chars, position)

\* index i of the stream is a separator, and the expected word before it is
\* non-empty and typed correctly in buffer buf
WordMatched(buf, i) ==
    /\ i < total_chars
    /\ isspace(At(chars, i))
    /\ WordStart(chars, i) < i
    /\ Len(buf) >= i
    /\ \A k \in WordStart(chars, i) .. i - 1 : At(buf, k) = At(chars, k)

\* C8: after a regular character that is a miss, streak is 0 and
\* multiplier is MULTIPLIER_START, whatever the word-boundary evaluation of
\* the same keystroke does.
C8_MissLeavesStreakZero ==
    [][\A c \in PrintableKeys :
         (KeyPrintable(c) /\ Miss(c))
           => (streak' = 0 /\ multiplier' = MULTIPLIER_START)]_vars

\* C9: an Enter key event never lowers streak or multiplier, whether or not
\* the expected character at that index is a newline.
C9_EnterNeverResets ==
    [][KeyEnter => (streak' >= streak /\ multiplier' >= multiplier)]_vars

\* C9 witness: Enter was typed where another character was expected, and a
\* streak is still standing
C9_Witness ==
    /\ pc = "loop" /\ ch = "\n" /\ position >= 1 /\ position - 1 < total_chars
    /\ Last(entered_buffer) = "\n" /\ At(chars, position - 1) # "\n"
    /\ streak >= 1 /\ multiplier > MULTIPLIER_START

\* C10: word scoring.  When a keystroke lands on a separator index of the
\* stream and the expected word before it is non-empty and typed correctly,
\* score grows by BASE_POINT_FACTOR * wordLength * multiplier, streak by 1,
\* and multiplier becomes min(MULTIPLIER_MAX, multiplier + MULTIPLIER_STEP),
\* streak and multiplier being the values at the moment of the evaluation
\* (after the reset, when the keystroke is a regular character that missed).
C10_WordScoring ==
    [][\A k \in PrintableKeys \cup {"\n"} :
         ((IF k = "\n" THEN KeyEnter ELSE KeyPrintable(k))
            /\ WordMatched(entered_buffer', position))
           => LET reset == k # "\n" /\ Miss(k)
                  m0 == IF reset THEN MULTIPLIER_START ELSE multiplier
                  s0 == IF reset THEN 0 ELSE streak
                  wordLength == position - WordStart(chars, position)
              IN /\ score' = score + BASE_POINT_FACTOR * wordLength * m0
                 /\ streak' = s0 + 1
                 /\ multiplier' = Min(MULTIPLIER_MAX, m0 + MULTIPLIER_STEP)]_vars

\* C10 witness: the word "a" was awarded at the top multiplier, which stayed
\* at MULTIPLIER_MAX
C10_Witness ==
    /\ InSession /\ ch = " " /\ position = 2 /\ source_filename = 1
    /\ SubSeq(entered_buffer, 1, 2) = <<"a", " ">>
    /\ streak = VeteranSnapshot.streak + 1
    /\ multiplier = MULTIPLIER_MAX
    /\ score = VeteranSnapshot.score + BASE_POINT_FACTOR * 1 * MULTIPLIER_MAX

\* C11: mismatch no-score.  When the word-boundary evaluation is made at a
\* separator index and the expected word before it is empty, or is not fully
\* covered by the typed buffer, or differs from what was typed at some index
\* of the word, the evaluation leaves score, streak and multiplier unchanged.
C11_MismatchNoScore ==
    [][(/\ AwardCall
        /\ isspace(At(chars, position - 1))
        /\ ~WordMatched(entered_buffer, position - 1))
         => UNCHANGED <<score, streak, multiplier>>]_vars

\* C11 witness: "cot " was evaluated against "cat " with a streak standing
C11_Witness ==
    /\ pc = "award_done" /\ source_filename = 3 /\ position = 4
    /\ entered_buffer = <<"c", "o", "t", " ">>
    /\ score = 125 /\ streak = 2 /\ multiplier = 7

\* C12 as stated: with the typed buffer "hello, world" one smart delete
\* removes "world" and the separator in front of it, leaving "hello," with no
\* trailing space, and the cursor position is reduced by the number of
\* characters removed.
C12_HelloWorldLosesBlank ==
    [][(DeleteCall /\ entered_buffer = HelloWorld /\ position = 12)
         => /\ entered_buffer' = SubSeq(HelloWorld, 1, 6)
            /\ position' = position - (Len(entered_buffer) - Len(entered_buffer'))]_vars

\* C12 amended: with the typed buffer "hello, world" one smart delete removes
\* the five characters of "world" and nothing else, leaving "hello, " with its
\* trailing space, and the cursor position goes from 12 to 7.
C12_HelloWorldKeepsBlank ==
    [][(DeleteCall /\ entered_buffer = HelloWorld /\ position = 12)
         => /\ entered_buffer' = SubSeq(HelloWorld, 1, 7)
            /\ position' = 7]_vars

\* C12 witness: one smart delete was applied to "hello, world"
C12_Witness ==
    /\ pc = "delete_call" /\ ch = "^W" /\ nkeys = 1
    /\ entered_buffer = <<"h", "e", "l", "l", "o", ",", " ">>
    /\ position = 7

\* C13: smart delete only removes from the tail.  For every typed buffer the
\* buffer after Ctrl+W is a prefix of the buffer before it, the cursor
\* position is decremented by exactly the number of entries removed, and on
\* an empty buffer nothing changes.
C13_SmartDeleteTailOnly ==
    [][KeySmartDelete
         => /\ entered_buffer' \in Prefixes(entered_buffer)
            /\ position' = position - (Len(entered_buffer) - Len(entered_buffer'))
            /\ (entered_buffer = << >> => UNCHANGED session)]_vars

\* C14: Backspace, as a control character and as the special key, removes
\* exactly the last entry of the typed buffer and decrements the cursor
\* position by exactly 1 when the buffer is non-empty, and at cursor position
\* 0 it changes neither the buffer nor the cursor position.
C14_BackspaceOneEntry ==
    [][(KeyBackspaceChar \/ KeyBackspaceSpecial)
         => /\ (entered_buffer # << >>
                  => /\ entered_buffer' = Front(entered_buffer)
                     /\ position' = position - 1)
            /\ (position = 0 => UNCHANGED <<entered_buffer, position>>)]_vars

\* an iteration of the main loop that got a key from get_wch
KeyEvent == pc = "loop" /\ nkeys' = nkeys + 1

\* C15: completion.  The session ends as complete exactly when the cursor
\* position equals total_chars: an iteration that leaves the loop without the
\* quit key leaves it at position total_chars, no iteration stays in the loop
\* with the position at total_chars, and no key event is processed once the
\* position has reached total_chars.
C15_CompleteExactlyAtEnd ==
    [][/\ ((pc = "loop" /\ pc' = "summary" /\ ch' \notin {"ESC", "KEY_EXIT"})
             => position' = total_chars)
       /\ ((pc = "loop" /\ pc' = "loop") => position' < total_chars)
       /\ (KeyEvent => position < total_chars)]_vars

\* C16: finished is absorbing.  Once a session is in a state with
\* position >= total_chars, no later iteration of its main loop changes its
\* position, typed buffer, score, streak or multiplier.
C16_FinishedIsAbsorbing ==
    [][(pc = "loop" /\ pc' \in {"loop", "summary"} /\ position >= total_chars)
         => UNCHANGED session]_vars

C18_FreshRoundStartsEmpty ==
    [][(InitSession /\ loaded_state.kind = "absent")
         => (pc' = "loop" /\ Cur' = FreshState(<< >>))]_vars

\* C19: in every reachable state score >= 0, streak >= 0 and
\* MULTIPLIER_START <= multiplier <= MULTIPLIER_MAX, in fresh sessions and
\* in sessions restored from a snapshot the program wrote.
C19_ScoreStateInRange ==
    /\ score >= 0
    /\ streak >= 0
    /\ MULTIPLIER_START <= multiplier
    /\ multiplier <= MULTIPLIER_MAX

\* C19 witness: a restored session in which a word was awarded while the
\* multiplier already stood at MULTIPLIER_MAX
C19_Witness ==
    /\ pc = "loop" /\ loaded_state.kind = "dict"
    /\ streak > loaded_state.streak /\ score > loaded_state.score
    /\ loaded_state.multiplier = MULTIPLIER_MAX /\ multiplier = MULTIPLIER_MAX

\* accuracy in hundredths of a percent: 100 percent when nothing was typed,
\* 100 * correct / typed otherwise
AccuracyPercent(correct, typed) ==
    IF typed = 0 THEN 10000 ELSE (10000 * correct) \div typed

\* C20: accuracy is 100 percent when the typed count is 0 and
\* 100 * correct / typed otherwise, in the live statistics of a running
\* session and in the final summary of a session that has ended; a session
\* that ends with an empty typed buffer reports 100 percent.
C20_AccuracyFormula ==
    LET st == compute_stats(entered_buffer, chars)
    IN /\ (pc = "loop"
             => accuracy_now(entered_buffer, chars)
                  = AccuracyPercent(st.correct, st.typed))
       /\ (pc = "summary"
             => final_accuracy(entered_buffer, chars)
                  = AccuracyPercent(st.correct, st.typed))

\* the indices (from 1) of the newline entries among the first n entries of cs
NewlinesBefore(cs, n) == {j \in 1 .. n : cs[j] = "\n"}

\* C21: position map alignment.  For every stream preprocess_text produces,
\* the position map has the length of the stream, and for every index i the
\* line of entry i is the number of newline entries before i and its column
\* is the number of entries after the last newline before i (i when there
\* is none).
C21_PositionMapAligned ==
    prep.done =>
        /\ Len(prep.idx_to_pos) = Len(prep.chars)
        /\ \A i \in 0 .. Len(prep.chars) - 1 :
              LET nl == NewlinesBefore(prep.chars, i)
                  last == IF nl = {} THEN 0
                          ELSE CHOOSE j \in nl : \A k \in nl : k <= j
              IN /\ At(prep.idx_to_pos, i).line = Cardinality(nl)
                 /\ At(prep.idx_to_pos, i).column = i - last

\* C21 witness: a stream of three lines, the breaks coming from the text and
\* from wrapping, whose last entry stands in column 1 of line 2
C21_Witness ==
    /\ pc = "prep_used" /\ Len(prep.display_lines) = 3
    /\ Len(split(text)) = 2
    /\ Last(prep.idx_to_pos) = [line |-> 2, column |-> 1]

RECURSIVE ConcatLines(_)
\* the display lines joined without the inserted breaks
ConcatLines(lines) ==
    IF Len(lines) = 0 THEN << >> ELSE Head(lines) \o ConcatLines(Tail(lines))

\* C22: lossless wrap.  For every paragraph of the text, tabs, runs of blanks
\* and words longer than the width included, and every positive wrap width,
\* the display lines produced for the paragraph, joined, are the paragraph,
\* and every display line is at most the wrap width long.
C22_WrapIsLossless ==
    prep.done =>
        \A k \in 1 .. Len(split(text)) :
            LET p == split(text)[k]
                lines == WrapParagraphs(<<p>>, 1, prep.wrap_width)
            IN /\ ConcatLines(lines) = p
               /\ \A l \in 1 .. Len(lines) : Len(lines[l]) <= prep.wrap_width

C24_LegacyRestoreSynthesizes ==
    [][(InitSession /\ loaded_state.kind = "dict" /\ ~loaded_state.has_raw
          /\ ~loaded_state.badpos)
         => /\ pc' = "loop"
            /\ entered_buffer' = SubSeq(chars, 1, position')
            /\ Len(entered_buffer') = position'
            /\ compute_stats(entered_buffer', chars).correct = position'
            /\ compute_stats(entered_buffer', chars).incorrect = 0]_vars

\* C24 witness: a session on "cat dog" resumed at position 4 from a snapshot
\* without raw_entered
C24_Witness ==
    /\ pc = "loop" /\ source_filename = 3 /\ ~loaded_state.has_raw
    /\ loaded_state.position = 4 /\ position = 4
    /\ entered_buffer = <<"c", "a", "t", " ">>
    /\ score = 125

\* C25: no guard against re-scoring.  When a Backspace has just taken the
\* cursor back to a separator index behind a correctly typed word, typing a
\* key there awards the word, whatever was awarded before: score and streak
\* grow again, so one word can be awarded any number of times.
C25_RetypedSeparatorScoresAgain ==
    [][\A k \in PrintableKeys \cup {"\n"} :
         ((IF k = "\n" THEN KeyEnter ELSE KeyPrintable(k))
            /\ ch \in {"^H", "KEY_BACKSPACE"}
            /\ WordMatched(entered_buffer, position))
           => /\ score' >= score + BASE_POINT_FACTOR * MULTIPLIER_START
              /\ streak' >= 1
              /\ (k = At(chars, position) => streak' = streak + 1)]_vars

\* C25 witness: a fresh session on "a a" with only the first separator typed,
\* after a Backspace and a second blank: the word "a" was awarded twice
C25_Witness ==
    /\ pc = "loop" /\ source_filename = 1 /\ loaded_state.kind = "absent"
    /\ round = 1 /\ nkeys = 4
    /\ entered_buffer = <<"a", " ">> /\ position = 2
    /\ streak = 2
    /\ score = BASE_POINT_FACTOR * MULTIPLIER_START
                 + BASE_POINT_FACTOR * (MULTIPLIER_START + MULTIPLIER_STEP)

C27_ScoreNeverDecreases ==
    [][(pc = "loop" /\ pc' \in {"loop", "summary"}) => score' >= score]_vars

\* C27 witness: a smart delete has removed the awarded word and its
\* separator, and the points are still there
C27_Witness ==
    /\ pc = "loop" /\ ch = "^W" /\ loaded_state.kind = "absent" /\ round = 1
    /\ entered_buffer = << >> /\ position = 0
    /\ score = BASE_POINT_FACTOR * MULTIPLIER_START /\ streak = 1

\* C28: Backspace, smart delete, the save command and unrecognized key events
\* leave score, streak and multiplier unchanged; the save command and
\* unrecognized key events also leave the typed buffer and the cursor
\* position unchanged.
C28_EditAndSaveKeepScoreState ==
    [][/\ (KeyBackspaceChar \/ KeyBackspaceSpecial \/ KeySmartDelete)
             => UNCHANGED <<score, streak, multiplier>>
       /\ ((\E o \in SaveOutcomes : KeySave(o)) \/ KeyOther)
             => UNCHANGED session]_vars

\* C28 witness: Backspace has removed the separator behind an awarded word
\* and the streak still stands
C28_Witness ==
    /\ pc = "loop" /\ ch = "KEY_BACKSPACE" /\ loaded_state.kind = "absent"
    /\ source_filename = 1 /\ entered_buffer = <<"a">> /\ position = 1
    /\ streak = 1 /\ multiplier = MULTIPLIER_START + MULTIPLIER_STEP
    /\ score = BASE_POINT_FACTOR * MULTIPLIER_START

RECURSIVE DeleteCount(_)
\* the number of smart deletes that take buffer to the empty buffer
DeleteCount(buffer) ==
    IF Len(buffer) = 0 THEN 0
    ELSE 1 + DeleteCount(smart_delete_prev_word_buffer(buffer))

\* C29: smart delete makes progress and terminates.  On every non-empty
\* typed buffer one smart delete removes at least one entry, so repeating it
\* reaches the empty buffer after at most Len(buffer) invocations.
C29_SmartDeleteProgress ==
    [][DeleteCall
         => /\ (Len(entered_buffer) > 0
                  => Len(entered_buffer') < Len(entered_buffer))
            /\ DeleteCount(entered_buffer) <= Len(entered_buffer)]_vars

\* C29 witness: one smart delete has cut a longer buffer down to a single
\* comma, and the next one empties it
C29_Witness ==
    /\ pc = "delete_call" /\ ch = "^W" /\ nkeys = 1
    /\ entered_buffer = <<",">> /\ position = 1
    /\ DeleteCount(entered_buffer) = 1

====
